---- MODULE Spec2Model ----
(***************************************************************************)
(* Model of cursock's raw-socket layer (src/src/socket.rs).                *)
(*                                                                         *)
(* Platform A (target_os = "linux"): Socket::new_linux with the resolver   *)
(* get_interface_info / get_if_index / get_if_ip / get_if_mac, the send    *)
(* and receive primitives, the timed receive and Socket::destroy, run      *)
(* against an OS descriptor table.                                         *)
(* Platform B (target_os = "windows"): Socket::read_raw_packet_windows     *)
(* against the capture library's next-packet call.                         *)
(*                                                                         *)
(* The caller is one synchronous thread; the other threads are the         *)
(* background attempts spawned by the timed receive and one thread that    *)
(* runs the blocking receive.                                              *)
(***************************************************************************)
EXTENDS Integers, Sequences, FiniteSets, TLC

\* ------------------------------------------------------------- bounds
\* open attempts made by the caller
MaxOpens == 2
\* network interfaces the OS knows, each with its own index, IPv4 and MAC
NumIfaces == 2
\* longest interface name (bytes, without the NUL) the caller passes
MaxNameLen == 16
\* timed receives made by the caller
MaxTimed == 1
\* longest frame the capture library delivers
MaxFrame == 3
\* largest receive buffer the caller passes
MaxCap == 2
\* distinct byte values in a frame (the caller's buffer starts as zeros)
NumBytes == 2

\* ------------------------------------------------- program constants
\* ifr_name: [0; 16]
IFNAMSIZ == 16

Attempts == 1 .. MaxOpens
\* the descriptor table has room for every attempt's socket
Fds      == 0 .. (MaxOpens - 1)
Ifaces   == 1 .. NumIfaces
Timed    == 1 .. MaxTimed
\* name lengths: the empty name, the longest that fits the name field, and longer
NameLens == {0} \cup ((IFNAMSIZ - 1) .. MaxNameLen)

VARIABLES
    fds,      \* OS descriptor table: fd -> 0 (closed) or the open attempt that got it
    chan,     \* Socket values, one per open attempt
    closed,   \* history: destroy has been called on the channel
    o,        \* the open call in progress, or the last one finished
    ifr,      \* bytes memcpy wrote at if_request.ifr_name (local of the resolver)
    t,        \* timed receives and their background attempts
    ret,      \* what the caller's last call returned, when it was a send or a receive
    rcv,      \* the receive running on a thread of its own: idle, or blocked in recvfrom
    wbuf,     \* Platform B: the caller's receive buffer
    win       \* Platform B: the last read_raw_packet_windows call

vars == <<fds, chan, closed, o, ifr, t, ret, rcv, wbuf, win>>
linuxVars == <<fds, chan, closed, o, ifr, t, ret, rcv>>
winVars == <<wbuf, win>>

\* struct Socket { ifindex, socket, src_ip, src_mac }
NoSocket == [status |-> "unused", socket |-> -1, ifindex |-> 0, src_ip |-> 0, src_mac |-> 0]

NoOpen == [pc |-> "idle", att |-> 0, iface |-> 0, called |-> FALSE, socket |-> -1, ifindex |-> 0,
           ip |-> 0, q |-> <<>>, res |-> "none"]

NoTimed == [st |-> "unused", w |-> "none", ch |-> 0, wres |-> "none", res |-> "none",
            by |-> "none", buf |-> "untouched"]

NoRet == [op |-> "none", res |-> "none"]

\* ------------------------------------------------------------ the OS
\* socket(2): the lowest-numbered free descriptor, or -1
FreeFds == {fd \in Fds : fds[fd] = 0}
LowestFree == CHOOSE fd \in FreeFds : \A g \in FreeFds : fd <= g
os_socket(ok) == IF ok /\ FreeFds # {} THEN LowestFree ELSE -1

\* close(2) on a descriptor number: releases whatever is open under that number
os_close(fd) == [f \in Fds |-> IF f = fd THEN 0 ELSE fds[f]]

\* a descriptor number that is open in the table
IsOpenFd(fd) == fd \in Fds /\ fds[fd] # 0

\* what the OS reports for interface i: SIOCGIFINDEX, SIOCGIFADDR, SIOCGIFHWADDR
IfIndexOf(i) == i
IpOf(i)      == NumIfaces + i
MacOf(i)     == 2 * NumIfaces + i

\* ioctl(2) on the request structure: -1, or 0 with the value filled in
os_ioctl(ok) == IF ok THEN 0 ELSE -1

\* ------------------------------------------------------- the caller
Waiting == {k \in Timed : t[k].st = "wait"}
CallerIdle == o.pc = "idle" /\ Waiting = {}
\* the process has not been killed by the overrun of the name buffer
Alive == o.pc # "crashed"
OpenChans == {a \in Attempts : chan[a].status = "open"}
NextAttempt == CHOOSE a \in Attempts : chan[a].status = "unused" /\
                   \A b \in Attempts : chan[b].status = "unused" => a <= b
FreeTimed == CHOOSE k \in Timed : t[k].st = "unused" /\
                   \A j \in Timed : t[j].st = "unused" => k <= j

\* ------------------------------------------------- Socket::new_linux
\* if_name.as_bytes_with_nul().len(): the size handed to memcpy
NameCopySize(len) == len + 1

\* memcpy(dest, src, size): the indices of dest it writes (1-based)
memcpy_indices(size) == 1 .. size

\* a copy that runs past the end of its destination is undefined behaviour: the
\* bytes land in whatever follows, and the process goes on or is killed
OutOfBounds(written, capacity) == written > capacity

\* the end of the call: the result is returned, the resolver's locals are gone
OpenReturn(att, rec, res, sock) ==
    /\ o' = [rec EXCEPT !.pc = "idle", !.res = res, !.iface = 0, !.ifindex = 0, !.ip = 0]
    /\ chan' = [chan EXCEPT ![att] = sock]
    /\ ifr' = 0

\* CString::new, socket(), and get_interface_info up to its first query
new_linux(iface, len, hasNul, sockOk, crash) ==
    /\ CallerIdle
    /\ \E a \in Attempts : chan[a].status = "unused"
    /\ LET att == NextAttempt
           begun == [NoOpen EXCEPT !.att = att, !.iface = iface]
       IN  IF hasNul
           THEN /\ OpenReturn(att, begun, "Parse", [NoSocket EXCEPT !.status = "failed"])
                /\ UNCHANGED fds
           ELSE LET socket == os_socket(sockOk)
                    called == [begun EXCEPT !.called = TRUE, !.socket = socket]
                IN  IF socket < 0
                    THEN /\ OpenReturn(att, called, "Initialize",
                                       [NoSocket EXCEPT !.status = "failed"])
                         /\ UNCHANGED fds
                    ELSE /\ fds' = [fds EXCEPT ![socket] = att]
                         /\ ifr' = Cardinality(memcpy_indices(NameCopySize(len)))
                         /\ o' = [called EXCEPT !.pc =
                                    IF OutOfBounds(ifr', IFNAMSIZ) /\ crash
                                    THEN "crashed" ELSE "index"]
                         /\ UNCHANGED chan
    /\ ret' = NoRet
    /\ UNCHANGED <<closed, t, rcv, winVars>>

\* one ioctl of the resolver, logged
Query(kind, err, val) == [kind |-> kind, ok |-> err # -1, val |-> IF err # -1 THEN val ELSE 0]

\* Err(err) => return Err(err), in get_interface_info and then in new_linux
\* the values the earlier queries had obtained go out of scope with the call
ResolveFails(rec) ==
    /\ OpenReturn(rec.att, [rec EXCEPT !.q = [i \in DOMAIN @ |-> [@[i] EXCEPT !.val = 0]]],
                  "Sockets", [NoSocket EXCEPT !.status = "failed"])
    /\ UNCHANGED fds

\* mutant of get_if_index: the ioctl's failure is not checked
get_if_index_unchecked(ok) ==
    /\ o.pc = "index"
    /\ LET err == os_ioctl(ok)
           val == IfIndexOf(o.iface)
           rec == [o EXCEPT !.q = Append(@, Query("SIOCGIFINDEX", err, val))]
       IN  /\ o' = [rec EXCEPT !.pc = "ip", !.ifindex = val]
           /\ UNCHANGED <<fds, chan, ifr>>
    /\ UNCHANGED <<closed, t, ret, rcv, winVars>>

get_if_index(ok) ==
    /\ o.pc = "index"
    /\ LET err == os_ioctl(ok)
           val == IfIndexOf(o.iface)
           rec == [o EXCEPT !.q = Append(@, Query("SIOCGIFINDEX", err, val))]
       IN  IF err = -1
           THEN ResolveFails(rec)
           ELSE /\ o' = [rec EXCEPT !.pc = "ip", !.ifindex = val]
                /\ UNCHANGED <<fds, chan, ifr>>
    /\ UNCHANGED <<closed, t, ret, rcv, winVars>>

get_if_ip(ok) ==
    /\ o.pc = "ip"
    /\ LET err == os_ioctl(ok)
           val == IpOf(o.iface)
           rec == [o EXCEPT !.q = Append(@, Query("SIOCGIFADDR", err, val))]
       IN  IF err = -1
           THEN ResolveFails(rec)
           ELSE /\ o' = [rec EXCEPT !.pc = "mac", !.ip = val]
                /\ UNCHANGED <<fds, chan, ifr>>
    /\ UNCHANGED <<closed, t, ret, rcv, winVars>>

\* mutant of get_if_mac: the two addresses are stored in each other's field
get_if_mac_swapped(ok) ==
    /\ o.pc = "mac"
    /\ LET err == os_ioctl(ok)
           val == MacOf(o.iface)
           rec == [o EXCEPT !.q = Append(@, Query("SIOCGIFHWADDR", err, val))]
       IN  IF err = -1
           THEN ResolveFails(rec)
           ELSE /\ OpenReturn(rec.att, rec, "Ok",
                              [status |-> "open", socket |-> rec.socket,
                               ifindex |-> rec.ifindex, src_ip |-> val,
                               src_mac |-> rec.ip])
                /\ UNCHANGED fds
    /\ UNCHANGED <<closed, t, ret, rcv, winVars>>

get_if_mac(ok) ==
    /\ o.pc = "mac"
    /\ LET err == os_ioctl(ok)
           val == MacOf(o.iface)
           rec == [o EXCEPT !.q = Append(@, Query("SIOCGIFHWADDR", err, val))]
       IN  IF err = -1
           THEN ResolveFails(rec)
           ELSE /\ OpenReturn(rec.att, rec, "Ok",
                              [status |-> "open", socket |-> rec.socket,
                               ifindex |-> rec.ifindex, src_ip |-> rec.ip,
                               src_mac |-> val])
                /\ UNCHANGED fds
    /\ UNCHANGED <<closed, t, ret, rcv, winVars>>

\* ------------------------------------------- Socket::send_raw_packet
\* sendto(2): the number of bytes accepted, or -1 (always -1 on a bad descriptor)
os_sendto(fd, ok) == IF IsOpenFd(fd) /\ ok THEN 1 ELSE -1

\* recvfrom(2) is entered: the kernel looks the descriptor up there. On a bad
\* descriptor it returns -1 at once; otherwise it holds the socket and blocks
os_recvfrom_enters(fd) == IsOpenFd(fd)

\* recvfrom(2) returns from its wait: a frame's byte count, or -1. The socket
\* was taken at entry, so a close of the descriptor since then changes nothing
os_recvfrom_returns(ok) == IF ok THEN 1 ELSE -1

send_raw_packet_linux(a, ok) ==
    /\ CallerIdle
    /\ a \in OpenChans
    /\ LET length == os_sendto(chan[a].socket, ok)
       IN  ret' = [op |-> "send", res |-> IF length < 0 THEN "Sockets" ELSE "Ok"]
    /\ UNCHANGED <<fds, chan, closed, o, ifr, t, rcv, winVars>>

\* ------------------------------------------- Socket::read_raw_packet
\* if length < 0 { Err(Sockets) } else { Ok(()) }
read_result(length) == IF length < 0 THEN "Sockets" ELSE "Ok"

\* a receive is entered, on a thread of its own: with a bad descriptor it
\* returns at once, otherwise it blocks while the other calls go on
read_raw_packet_linux(a) ==
    /\ Alive
    /\ rcv = "idle"
    /\ a \in OpenChans
    /\ IF os_recvfrom_enters(chan[a].socket)
       THEN /\ rcv' = "blocked"
            /\ UNCHANGED ret
       ELSE /\ ret' = [op |-> "recv", res |-> read_result(-1)]
            /\ UNCHANGED rcv
    /\ UNCHANGED <<fds, chan, closed, o, ifr, t, winVars>>

\* the blocked receive returns
read_raw_packet_linux_returns(ok) ==
    /\ Alive
    /\ rcv = "blocked"
    /\ rcv' = "idle"
    /\ ret' = [op |-> "recv", res |-> read_result(os_recvfrom_returns(ok))]
    /\ UNCHANGED <<fds, chan, closed, o, ifr, t, winVars>>

\* ----------------------------------- Socket::read_raw_packet_timeout
None == [some |-> FALSE, val |-> "none"]
Some(v) == [some |-> TRUE, val |-> v]

\* mutant of timeout_result: the attempt's error is dropped
timeout_result_drops_error(opt) == IF opt.some THEN "Ok" ELSE "TimeOut"

\* match read_timeout(..) { Some(result) => result, None => Err(TimeOut) }
timeout_result(opt) == IF opt.some THEN opt.val ELSE "TimeOut"

\* the call spawns the background attempt and waits for it or for the deadline
read_timeout_spawn(a) ==
    /\ CallerIdle
    /\ a \in OpenChans
    /\ \E k \in Timed : t[k].st = "unused"
    /\ t' = [t EXCEPT ![FreeTimed] = [NoTimed EXCEPT !.st = "wait", !.w = "spawned", !.ch = a]]
    /\ ret' = NoRet
    /\ UNCHANGED <<fds, chan, closed, o, ifr, rcv, winVars>>

\* the attempt's receive has returned length: the result goes to the caller if
\* it is still waiting, and is dropped otherwise; the buffer is written either
\* way, and the attempt's reference to the socket ends with it
AttemptEnds(k, length) ==
    LET result == read_result(length)
        done   == [t[k] EXCEPT !.w = "finished", !.wres = result, !.ch = 0,
                               !.buf = IF length < 0 THEN @ ELSE "written"]
    IN  t' = [t EXCEPT ![k] =
                 IF t[k].st = "wait"
                 THEN [done EXCEPT !.st = "returned", !.by = "finished",
                                   !.res = timeout_result(Some(result))]
                 ELSE done]

\* the background attempt enters its receive: with a bad descriptor it ends at
\* once, otherwise it blocks, holding the socket it found
read_timeout_enter(k) ==
    /\ Alive
    /\ t[k].w = "spawned"
    /\ IF os_recvfrom_enters(chan[t[k].ch].socket)
       THEN t' = [t EXCEPT ![k] = [@ EXCEPT !.w = "inflight", !.ch = 0]]
       ELSE AttemptEnds(k, -1)
    /\ UNCHANGED <<fds, chan, closed, o, ifr, ret, rcv, winVars>>

\* the background attempt's blocked receive returns
read_timeout_finish(k, ok) ==
    /\ Alive
    /\ t[k].w = "inflight"
    /\ AttemptEnds(k, os_recvfrom_returns(ok))
    /\ UNCHANGED <<fds, chan, closed, o, ifr, ret, rcv, winVars>>

\* mutant of read_timeout_deadline: the deadline cancels the attempt
read_timeout_deadline_cancels(k) ==
    /\ Alive
    /\ t[k].st = "wait"
    /\ t' = [t EXCEPT ![k] = [@ EXCEPT !.st = "returned", !.by = "deadline", !.w = "cancelled",
                                       !.res = timeout_result(None)]]
    /\ UNCHANGED <<fds, chan, closed, o, ifr, ret, rcv, winVars>>

\* the deadline elapses first: the caller gets None, the attempt is left running
read_timeout_deadline(k) ==
    /\ Alive
    /\ t[k].st = "wait"
    /\ t' = [t EXCEPT ![k] = [@ EXCEPT !.st = "returned", !.by = "deadline",
                                       !.res = timeout_result(None)]]
    /\ UNCHANGED <<fds, chan, closed, o, ifr, ret, rcv, winVars>>

\* ------------------------------------------------- getters, destroy
\* &self.src_ip, &self.src_mac: reads of the stored fields
get_src_ip(a) == chan[a].src_ip
get_src_mac(a) == chan[a].src_mac

\* mutant of destroy_linux: the stored descriptor is invalidated on close
destroy_linux_invalidates(a) ==
    /\ CallerIdle
    /\ a \in OpenChans
    /\ fds' = os_close(chan[a].socket)
    /\ chan' = [chan EXCEPT ![a].socket = -1]
    /\ closed' = [closed EXCEPT ![a] = TRUE]
    /\ ret' = NoRet
    /\ UNCHANGED <<o, ifr, t, rcv, winVars>>

\* unsafe { ccs::close(self.socket) }: &self, nothing is invalidated
destroy_linux(a) ==
    /\ CallerIdle
    /\ a \in OpenChans
    /\ fds' = os_close(chan[a].socket)
    /\ closed' = [closed EXCEPT ![a] = TRUE]
    /\ ret' = NoRet
    /\ UNCHANGED <<chan, o, ifr, t, rcv, winVars>>

\* ------------------------------- Socket::read_raw_packet_windows
Bytes == 1 .. NumBytes
Frames == UNION {[1 .. n -> Bytes] : n \in 0 .. MaxFrame}

\* the caller's buffer before the call: cap bytes, all zero
FreshBuffer(cap) == [i \in 1 .. cap |-> 0]

NoRead == [result |-> 0, res |-> "none", cap |-> 0, data |-> <<>>, caplen |-> 0,
           size |-> 0, written |-> {}]

\* mutant of copy_size: the capture length is used untruncated
copy_size_untruncated(buflen, caplen) == caplen

\* if buffer.len() < header.caplen { buffer.len() } else { header.caplen }
copy_size(buflen, caplen) == IF buflen < caplen THEN buflen ELSE caplen

\* memcpy(dest, src, size): dest afterwards, as far as dest reaches
memcpy(dest, src, size) ==
    [i \in 1 .. Len(dest) |-> IF i \in memcpy_indices(size) THEN src[i] ELSE dest[i]]

\* pcap_next_ex returns 1 with header and pkt_data set to the captured packet,
\* 0 on a read timeout, -1 on an error, -2 at the end of a capture. In every
\* case but 1 no packet was delivered: header is still null or left pointing
\* at stale data, and using it goes on with that data or kills the process.
read_raw_packet_windows(cap, result, data, crash) ==
    /\ LET buffer == FreshBuffer(cap)
           call == [NoRead EXCEPT !.result = result, !.cap = cap]
       IN  IF result = 0
           THEN /\ win' = [call EXCEPT !.res = "TimeOut"]
                /\ wbuf' = buffer
           ELSE IF result # 1 /\ crash
           THEN /\ win' = [call EXCEPT !.res = "crashed"]
                /\ wbuf' = buffer
           ELSE LET caplen == Len(data)
                    size == copy_size(Len(buffer), caplen)
                IN  /\ wbuf' = memcpy(buffer, data, size)
                    /\ win' = [call EXCEPT !.res = "Ok", !.data = data, !.caplen = caplen,
                                           !.size = size, !.written = memcpy_indices(size)]
    /\ UNCHANGED linuxVars

\* the calls of open that differ in what the code does with them: a name with
\* an interior NUL, a socket() that fails, and every name that reaches the
\* resolver, whose overrun (if any) kills the process or does not
OpenInputs ==
    {[iface |-> i, len |-> l, hasNul |-> FALSE, sockOk |-> TRUE, crash |-> FALSE] :
        i \in Ifaces, l \in NameLens}
    \cup {[iface |-> i, len |-> l, hasNul |-> FALSE, sockOk |-> TRUE, crash |-> TRUE] :
        i \in Ifaces, l \in {n \in NameLens : OutOfBounds(NameCopySize(n), IFNAMSIZ)}}
    \cup {[iface |-> i, len |-> l, hasNul |-> h, sockOk |-> FALSE, crash |-> FALSE] :
        i \in {NumIfaces}, l \in {MaxNameLen}, h \in BOOLEAN}

\* ---------------------------------------------------- specification
InitLinux ==
    /\ fds = [fd \in Fds |-> 0]
    /\ chan = [a \in Attempts |-> NoSocket]
    /\ closed = [a \in Attempts |-> FALSE]
    /\ o = NoOpen
    /\ ifr = 0
    /\ t = [k \in Timed |-> NoTimed]
    /\ ret = NoRet
    /\ rcv = "idle"

InitWin ==
    /\ wbuf = <<>>
    /\ win = NoRead

Init == InitLinux /\ InitWin

\* open and the resolver
NextResolve ==
    \/ \E in \in OpenInputs : new_linux(in.iface, in.len, in.hasNul, in.sockOk, in.crash)
    \/ \E ok \in BOOLEAN : get_if_index(ok)
    \/ \E ok \in BOOLEAN : get_if_ip(ok)
    \/ \E ok \in BOOLEAN : get_if_mac(ok)

\* close
NextDestroy == \E a \in Attempts : destroy_linux(a)

\* the timed receive
NextTimeout ==
    \/ \E a \in Attempts : read_timeout_spawn(a)
    \/ \E k \in Timed : read_timeout_enter(k)
    \/ \E k \in Timed, ok \in BOOLEAN : read_timeout_finish(k, ok)
    \/ \E k \in Timed : read_timeout_deadline(k)

\* send and receive
NextIO ==
    \/ \E a \in Attempts, ok \in BOOLEAN : send_raw_packet_linux(a, ok)
    \/ \E a \in Attempts : read_raw_packet_linux(a)
    \/ \E ok \in BOOLEAN : read_raw_packet_linux_returns(ok)

Next == NextResolve \/ NextDestroy \/ NextTimeout \/ NextIO

NextWin ==
    \E cap \in 0 .. MaxCap, result \in {-2, -1, 0, 1}, data \in Frames, crash \in BOOLEAN :
        read_raw_packet_windows(cap, result, data, crash)

\* Platform A, every operation
Spec == Init /\ [][Next]_vars

\* Platform A, open and close only
SpecOpen == Init /\ [][NextResolve \/ NextDestroy]_vars

\* Platform A, open, close and the timed receive. The deadline is wall-clock
\* time: a caller that waits is always eventually woken by it.
SpecTimeout == Init /\ [][NextResolve \/ NextDestroy \/ NextTimeout]_vars
                    /\ \A k \in Timed : WF_vars(read_timeout_deadline(k))

\* Platform B, receive
SpecWin == Init /\ [][NextWin]_vars

\* ------------------------------------------------------------ claims
Min(a, b) == IF a < b THEN a ELSE b
Returned(k) == t[k].st = "returned"
QueryOrder == <<"SIOCGIFINDEX", "SIOCGIFADDR", "SIOCGIFHWADDR">>
AllQueriesOk(q) == Len(q) = Len(QueryOrder) /\ \A i \in DOMAIN q : q[i].ok
SomeQueryFailed(q) == \E i \in DOMAIN q : ~q[i].ok
\* a background attempt that has not ended: not yet in recvfrom, or blocked in it
InFlight == {"spawned", "inflight"}
OpenHasReturned == o.pc = "idle" /\ o.att # 0

\* what a timed receive that has returned gave its caller
C1_ResultOrTimeout ==
    \A k \in Timed : Returned(k) =>
        /\ t[k].by \in {"finished", "deadline"}
        /\ t[k].by = "finished" => (t[k].w = "finished" /\ t[k].res = t[k].wres)
        /\ t[k].by = "deadline" => t[k].res = "TimeOut"
\* C1: a timed receive that has returned was ended either by the background
\* receive finishing, and then returns exactly that receive's result, or by the
\* deadline, and then returns the timeout error; and every timed receive that
\* waits eventually returns, also when the receive never completes.
C1_TimedReceiveReturns ==
    /\ []C1_ResultOrTimeout
    /\ \A k \in Timed : (t[k].st = "wait") ~> Returned(k)
\* the deadline ended a call whose receive has not completed
C1_Witness ==
    \E k \in Timed : Returned(k) /\ t[k].by = "deadline" /\ t[k].w = "inflight"
                      /\ t[k].res = "TimeOut"

\* C2: once open has returned, it returned a channel exactly when socket()
\* gave a non-negative descriptor and all three queries succeeded; a negative
\* descriptor gives Initialize with no query issued; a failed query gives
\* Sockets; no failing open leaves a channel; a channel holds exactly the
\* descriptor, index, IPv4 and MAC obtained in that call.
C2_OpenContract ==
    OpenHasReturned =>
        /\ (o.res = "Ok") <=> (o.called /\ o.socket >= 0 /\ AllQueriesOk(o.q))
        /\ (o.called /\ o.socket < 0) => (o.res = "Initialize" /\ o.q = <<>>)
        /\ SomeQueryFailed(o.q) => o.res = "Sockets"
        /\ (o.res # "Ok") => chan[o.att].status = "failed"
        /\ (o.res = "Ok") =>
               chan[o.att] = [status |-> "open", socket |-> o.socket,
                              ifindex |-> o.q[1].val, src_ip |-> o.q[2].val,
                              src_mac |-> o.q[3].val]
\* an open that succeeded while an earlier channel is still around
C2_Witness ==
    /\ OpenHasReturned /\ o.res = "Ok" /\ o.att > 1
    /\ chan[o.att].socket = o.socket

\* C3: a channel on which close was never called keeps its descriptor open and
\* its own, whatever is done with the other channels.
C3_OthersHandleUntouched ==
    \A y \in Attempts : (chan[y].status = "open" /\ ~closed[y]) => fds[chan[y].socket] = y

\* C4: Platform B receive returns success only when the next-packet call
\* delivered a packet; 0 gives TimeOut and a negative return gives Sockets.
C4_ReceiveFailureReported ==
    win.res # "none" =>
        /\ (win.res = "Ok") <=> (win.result = 1)
        /\ (win.result = 0) => win.res = "TimeOut"
        /\ (win.result < 0) => win.res = "Sockets"

\* C5: a delivered frame of length L received into a buffer of capacity C
\* succeeds, writes exactly the indices 1 .. min(L, C), leaves there the
\* frame's first min(L, C) bytes and the rest of the buffer as it was, and
\* writes nothing past the buffer.
C5_Truncation ==
    (win.res # "none" /\ win.result = 1) =>
        LET m == Min(win.caplen, win.cap)
        IN  /\ win.res = "Ok"
            /\ Len(wbuf) = win.cap
            /\ win.written = 1 .. m
            /\ \A i \in win.written : i <= win.cap
            /\ \A i \in 1 .. m : wbuf[i] = win.data[i]
            /\ \A i \in (m + 1) .. win.cap : wbuf[i] = 0
\* a frame longer than a non-empty buffer was received
C5_Witness ==
    /\ win.result = 1 /\ win.res = "Ok"
    /\ win.cap > 0 /\ win.caplen > win.cap
    /\ win.size = win.cap

\* C6: no step changes a field of a constructed channel, nor what its getters
\* return; a send changes no channel at all.
C6_FieldsNeverChange ==
    [][/\ \A a \in Attempts : chan[a].status = "open" =>
              /\ chan'[a] = chan[a]
              /\ get_src_ip(a)' = get_src_ip(a)
              /\ get_src_mac(a)' = get_src_mac(a)
       /\ (ret' # ret /\ ret'.op = "send") => chan' = chan
      ]_vars
\* a send failed on a channel that was closed, after a timed receive timed out
C6_Witness ==
    /\ ret.op = "send" /\ ret.res = "Sockets"
    /\ \E a \in Attempts : chan[a].status = "open" /\ closed[a]
    /\ \E k \in Timed : Returned(k) /\ t[k].res = "TimeOut"

\* C7: when the deadline ends a timed receive, the background receive is still
\* in flight; it is never cancelled afterwards, only finishes; and what the
\* caller was given never changes once the call has returned.
C7_NotCancelled ==
    [][\A k \in Timed :
          /\ (t[k].st = "wait" /\ t'[k].by = "deadline") =>
                 (Returned(k)' /\ t'[k].res = "TimeOut" /\ t'[k].w \in InFlight)
          /\ (Returned(k) /\ t[k].w \in InFlight) => t'[k].w \in InFlight \cup {"finished"}
          /\ Returned(k) => (Returned(k)' /\ t'[k].res = t[k].res /\ t'[k].by = t[k].by)
      ]_vars
\* the receive finished and wrote the buffer after the caller got the timeout
\* and closed the channel
C7_Witness ==
    \E k \in Timed : /\ Returned(k) /\ t[k].by = "deadline" /\ t[k].res = "TimeOut"
                     /\ t[k].w = "finished" /\ t[k].wres = "Ok" /\ t[k].buf = "written"
                     /\ \A fd \in Fds : fds[fd] = 0
                     /\ \E a \in Attempts : closed[a]

\* C8: the queries of one resolution are a prefix of index, IPv4, hardware
\* address; only the last one issued can have failed, and then the open has
\* ended with Sockets and no channel; a channel implies all three succeeded.
C8_ResolverOrder ==
    /\ Len(o.q) <= Len(QueryOrder)
    /\ \A i \in DOMAIN o.q : o.q[i].kind = QueryOrder[i]
    /\ \A i \in DOMAIN o.q : i < Len(o.q) => o.q[i].ok
    /\ SomeQueryFailed(o.q) =>
           (o.pc = "idle" /\ o.res = "Sockets" /\ chan[o.att].status = "failed")
    /\ (o.att # 0 /\ chan[o.att].status = "open") => AllQueriesOk(o.q)
\* a resolution that ended at its second query
C8_Witness ==
    /\ OpenHasReturned /\ Len(o.q) = 2
    /\ o.q[1].ok /\ ~o.q[2].ok

\* C9: every open descriptor is held by a channel that open returned (or by
\* the open call still running).
C9_NoLeakedDescriptor ==
    \A fd \in Fds : fds[fd] # 0 =>
        \/ chan[fds[fd]].status = "open"
        \/ (o.pc # "idle" /\ o.att = fds[fd])

\* C10: the resolver writes at most 16 bytes into the 16-byte name field.
C10_NameFits == ifr <= IFNAMSIZ

====
